---- MODULE Spec2Model ----
(***************************************************************************)
(* LazyDoubleTable (src/lazy_double_table.py): an open-addressing hash     *)
(* table with double hashing, lazy deletion (DeletedItem markers) and      *)
(* growth through a predeclared sequence of table sizes.                   *)
(*                                                                         *)
(* A key is the sequence of the character codes of the Python string       *)
(* ("a" is <<97>>), so that hash and hash2 are computed as the code        *)
(* computes them.  A slot of the array is a record with a tag: "None"      *)
(* (Python None), "Deleted" (the DeletedItem class object) or "Item"       *)
(* (a (key, value) tuple).                                                 *)
(***************************************************************************)
EXTENDS Integers, Sequences, FiniteSets, TLC

\* ---- bounds of the model ----
NumKeys == 4          \* keys "a", "b", ... (NumKeys letters)
MaxVal == 2           \* values 1..MaxVal

\* ---- program constants ----
HASH_BASE == 31
HashSeed == 31415
Hash2Seed == 27449

KeyOf(i) == <<96 + i>>
Keys == {KeyOf(i) : i \in 1..NumKeys}
Values == 1..MaxVal

\* the `sizes` arguments the tables of the model are constructed with
\* <<5, 13, 29>> is the head of the class attribute TABLE_SIZES; <<3, 4, 5, 7>>
\* has capacities close enough for a rebuild to trigger the next one; <<3>> is
\* a table that starts at its last capacity
SizesChoices == {<<5, 13, 29>>, <<3, 4, 5, 7>>, <<3>>}

\* results of __hashy_probe that are not a position
KeyError == -1
RuntimeError == -2
NoPos == -3           \* first_deleted = None

\* TABLE_SIZES, size_index, array, length: the fields of the table;
\* points, results_history: the fields of a Team (0 and <<>> where the
\* behaviour has no Team)
VARIABLES TABLE_SIZES, size_index, array, length, last, latest, points,
          results_history, teams, leaderboard, schedule, played

vars ==
    <<TABLE_SIZES, size_index, array, length, last, latest, points,
      results_history, teams, leaderboard, schedule, played>>

team_vars == <<points, results_history>>

season_vars == <<teams, leaderboard, schedule, played>>

\* no Season has been constructed
NoSeason ==
    /\ teams = <<>>
    /\ leaderboard = <<>>
    /\ schedule = <<>>
    /\ played = 0

\* ---- slots ----
NoneSlot == [tag |-> "None", key |-> <<>>, value |-> 0]
DeletedItem == [tag |-> "Deleted", key |-> <<>>, value |-> 0]
Item(k, v) == [tag |-> "Item", key |-> k, value |-> v]

ArrayR(n) == [x \in 0..(n - 1) |-> NoneSlot]

table_size(arr) == Cardinality(DOMAIN arr)

\* ---- hashing ----
RECURSIVE HashLoop(_, _, _, _, _)
HashLoop(key, i, value, a, size) ==
    IF i > Len(key) THEN value
    ELSE HashLoop(key, i + 1, (key[i] + a * value) % size,
                  (a * HASH_BASE) % (size - 1), size)

hash(key, size) == HashLoop(key, 1, 0, HashSeed, size)

RECURSIVE gcd(_, _)
gcd(a, b) == IF b = 0 THEN a ELSE gcd(b, a % b)

RECURSIVE Hash2Loop(_, _, _, _, _)
Hash2Loop(key, i, value, a, size) ==
    IF i > Len(key) THEN value
    ELSE Hash2Loop(key, i + 1, (key[i] + a * value) % (size - 1),
                   (a * (HASH_BASE + 2)) % (size - 1), size)

\* a coprimality adjustment that moves the step on at most once
CoprimeStep_once(step, size) ==
    IF gcd(step, size) = 1 THEN step ELSE (step + 1) % size

RECURSIVE CoprimeStep(_, _)
CoprimeStep(step, size) ==
    IF gcd(step, size) = 1 THEN step
    ELSE CoprimeStep((step + 1) % size, size)

\* hash2 without the loop that makes the step coprime with the table size
hash2_raw(key, size) ==
    LET value == Hash2Loop(key, 1, 0, Hash2Seed, size)
    IN IF value > 1 THEN value ELSE 1

hash2(key, size) ==
    LET value == Hash2Loop(key, 1, 0, Hash2Seed, size)
        step == IF value > 1 THEN value ELSE 1
    IN CoprimeStep(step, size)

\* ---- probing ----
\* n is the number of iterations of `for _ in range(self.table_size)` left
RECURSIVE ProbeLoop(_, _, _, _, _, _, _)

\* a probe that never takes a DeletedItem for an insert
RECURSIVE ProbeLoop_noreuse(_, _, _, _, _, _, _)
ProbeLoop_noreuse(arr, key, is_insert, position, step, first_deleted, n) ==
    IF n = 0
    THEN IF is_insert THEN RuntimeError ELSE KeyError
    ELSE LET current_item == arr[position]
             next == (position + step) % table_size(arr)
         IN IF current_item.tag = "Deleted"
            THEN ProbeLoop_noreuse(arr, key, is_insert, next, step,
                                   first_deleted, n - 1)
            ELSE IF current_item.tag = "None"
            THEN IF is_insert THEN position ELSE KeyError
            ELSE IF current_item.key = key
                 THEN position
                 ELSE ProbeLoop_noreuse(arr, key, is_insert, next, step,
                                        first_deleted, n - 1)

\* a probe that, inserting, falls back on the remembered DeletedItem when the
\* loop ends without having met None
RECURSIVE ProbeLoop_reuse(_, _, _, _, _, _, _)
ProbeLoop_reuse(arr, key, is_insert, position, step, first_deleted, n) ==
    IF n = 0
    THEN IF is_insert
         THEN IF first_deleted # NoPos THEN first_deleted ELSE RuntimeError
         ELSE KeyError
    ELSE LET current_item == arr[position]
             next == (position + step) % table_size(arr)
         IN IF current_item.tag = "Deleted"
            THEN ProbeLoop_reuse(arr, key, is_insert, next, step,
                                 IF is_insert /\ first_deleted = NoPos
                                 THEN position ELSE first_deleted, n - 1)
            ELSE IF current_item.tag = "None"
            THEN IF is_insert
                 THEN IF first_deleted # NoPos THEN first_deleted ELSE position
                 ELSE KeyError
            ELSE IF current_item.key = key
                 THEN position
                 ELSE ProbeLoop_reuse(arr, key, is_insert, next, step,
                                      first_deleted, n - 1)

ProbeLoop(arr, key, is_insert, position, step, first_deleted, n) ==
    IF n = 0
    THEN IF is_insert THEN RuntimeError ELSE KeyError
    ELSE LET current_item == arr[position]
             next == (position + step) % table_size(arr)
         IN IF current_item.tag = "Deleted"
            THEN ProbeLoop(arr, key, is_insert, next, step,
                           IF is_insert /\ first_deleted = NoPos
                           THEN position ELSE first_deleted, n - 1)
            ELSE IF current_item.tag = "None"
            THEN IF is_insert
                 THEN IF first_deleted # NoPos THEN first_deleted ELSE position
                 ELSE KeyError
            ELSE IF current_item.key = key
                 THEN position
                 ELSE ProbeLoop(arr, key, is_insert, next, step,
                                first_deleted, n - 1)

\* a probe that, inserting, takes the first DeletedItem without looking further
RECURSIVE ProbeLoopEager(_, _, _, _, _, _)
ProbeLoopEager(arr, key, is_insert, position, step, n) ==
    IF n = 0
    THEN IF is_insert THEN RuntimeError ELSE KeyError
    ELSE LET current_item == arr[position]
             next == (position + step) % table_size(arr)
         IN IF current_item.tag = "Deleted"
            THEN IF is_insert THEN position
                 ELSE ProbeLoopEager(arr, key, is_insert, next, step, n - 1)
            ELSE IF current_item.tag = "None"
            THEN IF is_insert THEN position ELSE KeyError
            ELSE IF current_item.key = key
                 THEN position
                 ELSE ProbeLoopEager(arr, key, is_insert, next, step, n - 1)

hashy_probe_eager(arr, key, is_insert) ==
    ProbeLoopEager(arr, key, is_insert, hash(key, table_size(arr)),
                   hash2(key, table_size(arr)), table_size(arr))

hashy_probe(arr, key, is_insert) ==
    ProbeLoop(arr, key, is_insert, hash(key, table_size(arr)),
              hash2(key, table_size(arr)), NoPos, table_size(arr))

\* ---- the table as a value: the three fields and the exception raised ----
Table(arr, len, idx) ==
    [array |-> arr, length |-> len, size_index |-> idx, raised |-> "ok"]

\* (self.__length + 1) > self.table_size * 2 / 3, over the integers
NeedsRehash(len, size) == 3 * (len + 1) > 2 * size

RECURSIVE setitem(_, _, _)
RECURSIVE rehash(_)
RECURSIVE Reinsert(_, _, _)

\* __setitem__ counting every write as a new entry
setitem_recount(t, key, data) ==
    LET position == hashy_probe(t.array, key, TRUE)
    IN IF position = RuntimeError
       THEN [t EXCEPT !.raised = "RuntimeError"]
       ELSE LET t1 == [t EXCEPT !.array[position] = Item(key, data),
                                !.length = t.length + 1]
            IN IF NeedsRehash(t1.length, table_size(t1.array))
                  /\ t1.size_index < Len(TABLE_SIZES) - 1
               THEN rehash(t1)
               ELSE t1

\* __setitem__ that never rebuilds
setitem_nogrow(t, key, data) ==
    LET position == hashy_probe(t.array, key, TRUE)
    IN IF position = RuntimeError
       THEN [t EXCEPT !.raised = "RuntimeError"]
       ELSE [t EXCEPT !.array[position] = Item(key, data),
                      !.length = IF t.array[position].tag \in {"None", "Deleted"}
                                 THEN t.length + 1 ELSE t.length]

\* __setitem__ checking the load with the count it had before the write
setitem_precount(t, key, data) ==
    LET position == hashy_probe(t.array, key, TRUE)
    IN IF position = RuntimeError
       THEN [t EXCEPT !.raised = "RuntimeError"]
       ELSE LET len1 == IF t.array[position].tag \in {"None", "Deleted"}
                        THEN t.length + 1 ELSE t.length
                t1 == [t EXCEPT !.array[position] = Item(key, data),
                                !.length = len1]
            IN IF NeedsRehash(t.length, table_size(t1.array))
                  /\ t1.size_index < Len(TABLE_SIZES) - 1
               THEN rehash(t1)
               ELSE t1

\* __setitem__ that refuses a new key once the table cannot grow and the load
\* threshold is passed
setitem_strict(t, key, data) ==
    LET position == hashy_probe(t.array, key, TRUE)
    IN IF position = RuntimeError
       THEN [t EXCEPT !.raised = "RuntimeError"]
       ELSE LET is_new == t.array[position].tag \in {"None", "Deleted"}
                len1 == IF is_new THEN t.length + 1 ELSE t.length
                t1 == [t EXCEPT !.array[position] = Item(key, data),
                                !.length = len1]
            IN IF NeedsRehash(len1, table_size(t1.array))
               THEN IF t1.size_index < Len(TABLE_SIZES) - 1
                    THEN rehash(t1)
                    ELSE IF is_new
                         THEN [t EXCEPT !.raised = "RuntimeError"]
                         ELSE t1
               ELSE t1

\* __setitem__ that counts the entry before it probes for its slot
setitem_countfirst(t, key, data) ==
    LET position == hashy_probe(t.array, key, TRUE)
    IN IF position = RuntimeError
       THEN [t EXCEPT !.raised = "RuntimeError", !.length = t.length + 1]
       ELSE LET len1 == IF t.array[position].tag \in {"None", "Deleted"}
                        THEN t.length + 1 ELSE t.length
                t1 == [t EXCEPT !.array[position] = Item(key, data),
                                !.length = len1]
            IN IF NeedsRehash(len1, table_size(t1.array))
                  /\ t1.size_index < Len(TABLE_SIZES) - 1
               THEN rehash(t1)
               ELSE t1

\* __setitem__: an exception of the probe leaves the table as it was, an
\* exception inside __rehash leaves it as far as the rebuild got
setitem(t, key, data) ==
    LET position == hashy_probe(t.array, key, TRUE)
    IN IF position = RuntimeError
       THEN [t EXCEPT !.raised = "RuntimeError"]
       ELSE LET len1 == IF t.array[position].tag \in {"None", "Deleted"}
                        THEN t.length + 1 ELSE t.length
                t1 == [t EXCEPT !.array[position] = Item(key, data),
                                !.length = len1]
            IN IF NeedsRehash(len1, table_size(t1.array))
                  /\ t1.size_index < Len(TABLE_SIZES) - 1
               THEN rehash(t1)
               ELSE t1

\* the loop `for item in old_array` of __rehash, from index x on
Reinsert(t, old_array, x) ==
    IF x >= table_size(old_array) \/ t.raised # "ok"
    THEN t
    ELSE LET item == old_array[x]
         IN IF item.tag = "Item"
            THEN Reinsert(setitem(t, item.key, item.value), old_array, x + 1)
            ELSE Reinsert(t, old_array, x + 1)

\* __rehash that advances size_index but allocates the size it had
rehash_samesize(t) ==
    LET old_array == t.array
        idx == t.size_index + 1
    IN Reinsert([t EXCEPT !.size_index = idx,
                          !.array = ArrayR(TABLE_SIZES[idx]),
                          !.length = 0],
                old_array, 0)

\* __rehash whose loop over old_array starts at index 1
rehash_from1(t) ==
    LET old_array == t.array
        idx == t.size_index + 1
    IN IF idx >= Len(TABLE_SIZES)
       THEN [t EXCEPT !.size_index = idx, !.raised = "RuntimeError"]
       ELSE Reinsert([t EXCEPT !.size_index = idx,
                               !.array = ArrayR(TABLE_SIZES[idx + 1]),
                               !.length = 0],
                     old_array, 1)

rehash(t) ==
    LET old_array == t.array
        idx == t.size_index + 1
    IN IF idx >= Len(TABLE_SIZES)
       THEN [t EXCEPT !.size_index = idx, !.raised = "RuntimeError"]
       ELSE Reinsert([t EXCEPT !.size_index = idx,
                               !.array = ArrayR(TABLE_SIZES[idx + 1]),
                               !.length = 0],
                     old_array, 0)

\* __delitem__ that empties the slot instead of leaving a DeletedItem
delitem_clear(t, key) ==
    LET position == hashy_probe(t.array, key, FALSE)
    IN IF position = KeyError
       THEN [t EXCEPT !.raised = "KeyError"]
       ELSE [t EXCEPT !.array[position] = NoneSlot,
                      !.length = t.length - 1]

\* __delitem__ that marks the key's first slot when the key is not found
delitem_blind(t, key) ==
    LET position == hashy_probe(t.array, key, FALSE)
        target == IF position = KeyError
                  THEN hash(key, table_size(t.array)) ELSE position
    IN [t EXCEPT !.array[target] = DeletedItem,
                 !.length = t.length - 1]

\* __delitem__ that leaves the count as it was
delitem_nocount(t, key) ==
    LET position == hashy_probe(t.array, key, FALSE)
    IN IF position = KeyError
       THEN [t EXCEPT !.raised = "KeyError"]
       ELSE [t EXCEPT !.array[position] = DeletedItem]

delitem(t, key) ==
    LET position == hashy_probe(t.array, key, FALSE)
    IN IF position = KeyError
       THEN [t EXCEPT !.raised = "KeyError"]
       ELSE [t EXCEPT !.array[position] = DeletedItem,
                      !.length = t.length - 1]

\* __getitem__: the exception raised and the value returned
getitem(t, key) ==
    LET position == hashy_probe(t.array, key, FALSE)
    IN IF position = KeyError
       THEN [raised |-> "KeyError", ret |-> 0]
       ELSE [raised |-> "ok", ret |-> t.array[position].value]

\* __contains__ that looks at the key's first slot only
contains_home(t, key) ==
    LET slot == t.array[hash(key, table_size(t.array))]
    IN slot.tag = "Item" /\ slot.key = key

contains(t, key) == getitem(t, key).raised # "KeyError"

\* keys() and values(): `self.__array[x][0]` on the DeletedItem class is a
\* TypeError (a class is not subscriptable); res[i] beyond len(res) is an
\* IndexError.  field is 1 for keys(), 2 for values().
RECURSIVE CollectLoop(_, _, _, _)
CollectLoop(t, field, x, res) ==
    IF x >= table_size(t.array)
    THEN [raised |-> "ok", seq |-> res]
    ELSE LET item == t.array[x]
         IN IF item.tag = "None"
            THEN CollectLoop(t, field, x + 1, res)
            ELSE IF item.tag = "Deleted"
            THEN [raised |-> "TypeError", seq |-> <<>>]
            ELSE IF Len(res) >= t.length
            THEN [raised |-> "IndexError", seq |-> <<>>]
            ELSE CollectLoop(t, field, x + 1,
                             Append(res, IF field = 1 THEN item.key
                                         ELSE item.value))

keys(t) == CollectLoop(t, 1, 0, <<>>)

values(t) == CollectLoop(t, 2, 0, <<>>)

\* ---- the state machine ----
Self == Table(array, length, size_index)

LiveKeys(arr) == {arr[x].key : x \in {y \in DOMAIN arr : arr[y].tag = "Item"}}

Occupied(arr) == {x \in DOMAIN arr : arr[x].tag = "Item"}

Tombstones(arr) == {x \in DOMAIN arr : arr[x].tag = "Deleted"}

EmptySlots(arr) == {x \in DOMAIN arr : arr[x].tag = "None"}

\* the slots the probe of key examines, in order, until it returns or gives up
RECURSIVE PathLoop(_, _, _, _, _, _)
PathLoop(arr, key, position, step, n, path) ==
    IF n = 0 THEN path
    ELSE LET current_item == arr[position]
             path1 == Append(path, position)
         IN IF current_item.tag = "None"
               \/ (current_item.tag = "Item" /\ current_item.key = key)
            THEN path1
            ELSE PathLoop(arr, key, (position + step) % table_size(arr),
                          step, n - 1, path1)

ProbePath(arr, key) ==
    PathLoop(arr, key, hash(key, table_size(arr)),
             hash2(key, table_size(arr)), table_size(arr), <<>>)

TombstoneOnPath(arr, key) ==
    LET path == ProbePath(arr, key)
    IN \E i \in 1..Len(path) : arr[path[i]].tag = "Deleted"

\* last: the most recent call, what it raised and returned, and what the table
\* was before it (plen, pidx, pcap: length, size_index, table_size; plive: the
\* key was live; ptomb: the probe of the key crossed a DeletedItem).
\* latest: the value of the most recent successful set of each key, 0 when the
\* key was never set or was deleted since.
NoLast ==
    [op |-> "init", key |-> <<>>, val |-> 0, raised |-> "ok", ret |-> 0,
     seq |-> <<>>, plen |-> 0, pidx |-> 0, pcap |-> 0, plive |-> FALSE,
     ptomb |-> FALSE]

Record(op, key, val, raised, ret, seq) ==
    [op |-> op, key |-> key, val |-> val, raised |-> raised, ret |-> ret,
     seq |-> seq, plen |-> length, pidx |-> size_index,
     pcap |-> table_size(array), plive |-> key \in LiveKeys(array),
     ptomb |-> IF key = <<>> THEN FALSE ELSE TombstoneOnPath(array, key)]

\* __init__(sizes)
Init ==
    /\ TABLE_SIZES \in SizesChoices
    /\ size_index = 0
    /\ array = ArrayR(TABLE_SIZES[1])
    /\ length = 0
    /\ points = 0
    /\ results_history = <<>>
    /\ NoSeason
    /\ last = NoLast
    /\ latest = [k \in Keys |-> 0]

SetItem(k, v) ==
    LET t == setitem(Self, k, v)
    IN /\ array' = t.array
       /\ length' = t.length
       /\ size_index' = t.size_index
       /\ last' = Record("set", k, v, t.raised, 0, <<>>)
       /\ latest' = IF t.raised = "ok" THEN [latest EXCEPT ![k] = v]
                    ELSE latest
       /\ UNCHANGED TABLE_SIZES
       /\ UNCHANGED team_vars
       /\ UNCHANGED season_vars

DelItem(k) ==
    LET t == delitem(Self, k)
    IN /\ array' = t.array
       /\ length' = t.length
       /\ size_index' = t.size_index
       /\ last' = Record("del", k, 0, t.raised, 0, <<>>)
       /\ latest' = IF t.raised = "ok" THEN [latest EXCEPT ![k] = 0]
                    ELSE latest
       /\ UNCHANGED TABLE_SIZES
       /\ UNCHANGED team_vars
       /\ UNCHANGED season_vars

\* a __getitem__ that stores a default value for a key it does not find
GetItem_default(k) ==
    LET r == getitem(Self, k)
        t == IF r.raised = "KeyError" THEN setitem(Self, k, 0) ELSE Self
    IN /\ array' = t.array
       /\ length' = t.length
       /\ size_index' = t.size_index
       /\ last' = Record("get", k, 0, r.raised, r.ret, <<>>)
       /\ UNCHANGED <<TABLE_SIZES, latest>>
       /\ UNCHANGED team_vars
       /\ UNCHANGED season_vars

GetItem(k) ==
    LET r == getitem(Self, k)
    IN /\ last' = Record("get", k, 0, r.raised, r.ret, <<>>)
       /\ UNCHANGED <<TABLE_SIZES, size_index, array, length, latest>>
       /\ UNCHANGED team_vars
       /\ UNCHANGED season_vars

KeysCall ==
    LET r == keys(Self)
    IN /\ last' = Record("keys", <<>>, 0, r.raised, 0, r.seq)
       /\ UNCHANGED <<TABLE_SIZES, size_index, array, length, latest>>
       /\ UNCHANGED team_vars
       /\ UNCHANGED season_vars

ValuesCall ==
    LET r == values(Self)
    IN /\ last' = Record("values", <<>>, 0, r.raised, 0, r.seq)
       /\ UNCHANGED <<TABLE_SIZES, size_index, array, length, latest>>
       /\ UNCHANGED team_vars
       /\ UNCHANGED season_vars

Next ==
    \/ \E k \in Keys, v \in Values : SetItem(k, v)
    \/ \E k \in Keys : DelItem(k)
    \/ \E k \in Keys : GetItem(k)
    \/ KeysCall
    \/ ValuesCall

Spec == Init /\ [][Next]_vars

\* ---- tables keyed by the letters "a", "b", ..., each letter with one value ----
NumLetters == 5

Letters == {KeyOf(i) : i \in 1..NumLetters}

\* the value the i-th letter is set to: "a" to 1, "b" to 2, ...
LetterVal(k) == k[1] - 96

\* <<4>> is a table at its last capacity that the letters can fill
LetterSizes == {<<5, 13, 29>>, <<4>>}

InitLetters ==
    /\ TABLE_SIZES \in LetterSizes
    /\ size_index = 0
    /\ array = ArrayR(TABLE_SIZES[1])
    /\ length = 0
    /\ points = 0
    /\ results_history = <<>>
    /\ NoSeason
    /\ last = NoLast
    /\ latest = [k \in Letters |-> 0]

\* __contains__: ret is 1 for True, 0 for False; only KeyError is caught
ContainsCall(k) ==
    LET r == getitem(Self, k)
    IN /\ last' = Record("contains", k, 0,
                         IF r.raised = "KeyError" THEN "ok" ELSE r.raised,
                         IF contains(Self, k) THEN 1 ELSE 0, <<>>)
       /\ UNCHANGED <<TABLE_SIZES, size_index, array, length, latest>>
       /\ UNCHANGED team_vars
       /\ UNCHANGED season_vars

\* __len__
LenCall ==
    /\ last' = Record("len", <<>>, 0, "ok", length, <<>>)
    /\ UNCHANGED <<TABLE_SIZES, size_index, array, length, latest>>
    /\ UNCHANGED team_vars
    /\ UNCHANGED season_vars

NextLetters ==
    \/ \E k \in Letters : SetItem(k, LetterVal(k))
    \/ \E k \in Letters : DelItem(k)
    \/ \E k \in Letters : GetItem(k)
    \/ \E k \in Letters : ContainsCall(k)
    \/ LenCall
    \/ KeysCall
    \/ ValuesCall

SpecLetters == InitLetters /\ [][NextLetters]_vars

\* ---- properties ----
LastIndex == Len(TABLE_SIZES) - 1

SetOk == last.op = "set" /\ last.raised = "ok"

Rebuilt == size_index # last.pidx

\* C1: in every reachable state each key is held by at most one Occupied slot
\* of the array.
C1_OneSlotPerKey ==
    \A k \in Keys : Cardinality({x \in Occupied(array) : array[x].key = k}) <= 1

\* a live key was set again and its probe crossed a DeletedItem before its slot
C1_Witness ==
    /\ SetOk /\ last.plive /\ last.ptomb
    /\ Cardinality({x \in Occupied(array) : array[x].key = last.key}) = 1

\* C2: every key set and not deleted since is returned by get with the value
\* of its most recent set, whatever sets, deletes and rebuilds came between.
C2_GetReturnsLatest ==
    /\ \A k \in Keys :
          latest[k] # 0 => getitem(Self, k) = [raised |-> "ok", ret |-> latest[k]]
    /\ (last.op = "get" /\ latest[last.key] # 0)
          => (last.raised = "ok" /\ last.ret = latest[last.key])

\* get returned the latest value of a key in a rebuilt table holding DeletedItems
C2_Witness ==
    /\ last.op = "get" /\ last.raised = "ok" /\ last.ret = latest[last.key]
    /\ last.ret = MaxVal
    /\ size_index >= 1 /\ Tombstones(array) # {}

\* C3: a successful set of a live key replaces its value and leaves the count
\* unchanged; a successful set of a key that was not live adds exactly one to
\* the count; a set that raises leaves the count as it was.
C3_SetCount ==
    last.op = "set" =>
        /\ (last.raised = "ok" /\ last.plive) => length = last.plen
        /\ (last.raised = "ok" /\ ~last.plive) => length = last.plen + 1
        /\ last.raised = "ok" => getitem(Self, last.key).ret = last.val
        /\ last.raised # "ok" => length = last.plen

\* a live key was set again in a table holding two or more entries
C3_Witness ==
    /\ SetOk /\ last.plive /\ last.plen >= 2 /\ length = last.plen
    /\ getitem(Self, last.key).ret = last.val

\* C4: keys() and values() return, without raising, exactly the keys and the
\* values of the Occupied slots, as a sequence of length count.
C4_KeysValuesSnapshot ==
    /\ last.op = "keys" =>
          /\ last.raised = "ok"
          /\ Len(last.seq) = length
          /\ {last.seq[i] : i \in 1..Len(last.seq)} = LiveKeys(array)
    /\ last.op = "values" =>
          /\ last.raised = "ok"
          /\ Len(last.seq) = length
          /\ {last.seq[i] : i \in 1..Len(last.seq)}
                = {array[x].value : x \in Occupied(array)}

\* C5: set raises RuntimeError (table full) only at the last capacity of the
\* sequence with no None and no DeletedItem slot in the array.
C5_TableFullOnlyWhenFull ==
    (last.op = "set" /\ last.raised = "RuntimeError") =>
        /\ size_index = LastIndex
        /\ EmptySlots(array) = {}
        /\ Tombstones(array) = {}

\* C6: a set of a key that is not live and whose probe crosses a DeletedItem
\* succeeds, leaves every deleted key absent and the count equal to the number
\* of Occupied slots.
C6_TombstoneReuse ==
    (last.op = "set" /\ ~last.plive /\ last.ptomb) =>
        /\ last.raised = "ok"
        /\ length = Cardinality(Occupied(array))
        /\ \A k \in Keys :
              latest[k] = 0 => getitem(Self, k).raised = "KeyError"

\* C7: right after a successful set, count / capacity is at most 2/3 unless the
\* table is at the last capacity of its sequence.
C7_LoadFactor ==
    SetOk => (3 * length <= 2 * table_size(array) \/ size_index = LastIndex)

\* a set rebuilt the table into a capacity that is not the last one
C7_Witness ==
    /\ SetOk /\ Rebuilt /\ size_index < LastIndex
    /\ 3 * length <= 2 * table_size(array)

\* C8: a successful set rebuilds the table exactly when it inserted a new key,
\* the count with that key counted exceeds 2/3 of the capacity, and a larger
\* capacity exists.
C8_RebuildExactlyOverThreshold ==
    SetOk =>
        (Rebuilt <=> (/\ ~last.plive
                      /\ 3 * (last.plen + 1) > 2 * last.pcap
                      /\ last.pidx < LastIndex))

\* C9: the capacity is the element of the sequence at size_index, size_index is
\* a valid index of the sequence, and no call makes the capacity smaller.
C9_Capacity ==
    /\ size_index \in 0..LastIndex
    /\ table_size(array) = TABLE_SIZES[size_index + 1]
    /\ last.op # "init" => table_size(array) >= last.pcap

\* a set moved the table to a larger capacity
C9_Witness ==
    /\ last.op = "set" /\ table_size(array) > last.pcap
    /\ size_index > last.pidx

\* C10: a set that updates a live key and a delete of any key leave capacity
\* and size_index as they were.
C10_NoGrowthOnUpdateOrDelete ==
    (last.op = "del" \/ (last.op = "set" /\ last.plive)) =>
        (size_index = last.pidx /\ table_size(array) = last.pcap)

\* a live key was updated in a table that can still grow and whose next insert
\* would rebuild it
C10_Witness ==
    /\ SetOk /\ last.plive
    /\ size_index < LastIndex
    /\ NeedsRehash(length + 1, table_size(array))

\* the (key, value) pairs of the Occupied slots
LivePairs(arr) == {<<arr[x].key, arr[x].value>> : x \in Occupied(arr)}

\* the pairs the calls made so far leave live: every key with its latest value
LatestPairs == {<<k, latest[k]>> : k \in {j \in DOMAIN latest : latest[j] # 0}}

\* C11: after a set that rebuilt the table, the Occupied slots hold exactly the
\* pairs that were live before plus the pair just set, count is their number,
\* and the new array holds no DeletedItem.
C11_RebuildPreservesLive ==
    (SetOk /\ Rebuilt) =>
        /\ latest[last.key] = last.val
        /\ LivePairs(array) = LatestPairs
        /\ length = Cardinality(LatestPairs)
        /\ Tombstones(array) = {}

\* a set that reused a DeletedItem slot rebuilt a table of three or more entries
C11_Witness ==
    /\ SetOk /\ Rebuilt /\ last.ptomb
    /\ length >= 3 /\ LivePairs(array) = LatestPairs /\ Tombstones(array) = {}

\* C12: get and delete of a key that is not live raise KeyError, also when the
\* array has no None slot, and leave the array, the count and the capacity as
\* they were.
C12_AbsentKeyError ==
    [][(last'.op \in {"get", "del"} /\ ~last'.plive) =>
          /\ last'.raised = "KeyError"
          /\ array' = array
          /\ length' = length
          /\ size_index' = size_index]_vars

\* a delete of an absent key raised KeyError in an array without a None slot
C12_Witness ==
    /\ last.op = "del" /\ ~last.plive /\ last.raised = "KeyError"
    /\ EmptySlots(array) = {} /\ Tombstones(array) # {}

\* C13: delete of a live key turns exactly the key's Occupied slot into a
\* DeletedItem and takes one off the count; get of the key then raises KeyError
\* and contains is false.  With sizes 5, 13, ...: once "a", "c", "d" hold 1, 3,
\* 4, "b" is absent and "e" has just been inserted, len is 4 and get("b")
\* raises KeyError.
C13_Delete ==
    /\ [][(last'.op = "del" /\ last'.plive) =>
             /\ last'.raised = "ok"
             /\ \E p \in Occupied(array) :
                   /\ array[p].key = last'.key
                   /\ array' = [array EXCEPT ![p] = DeletedItem]
             /\ length' = length - 1
             /\ size_index' = size_index
             /\ getitem(Table(array', length', size_index'),
                        last'.key).raised = "KeyError"
             /\ ~contains(Table(array', length', size_index'), last'.key)]_vars
    /\ []((/\ TABLE_SIZES = <<5, 13, 29>>
           /\ SetOk /\ last.key = KeyOf(5) /\ ~last.plive
           /\ latest = [k \in Letters |->
                          IF k \in {KeyOf(1), KeyOf(3), KeyOf(4), KeyOf(5)}
                          THEN LetterVal(k) ELSE 0])
          => (/\ length = 4
              /\ getitem(Self, KeyOf(2)).raised = "KeyError"))

\* "e" was inserted after "b" was deleted from the table holding "a".."d"
C13_Witness ==
    /\ TABLE_SIZES = <<5, 13, 29>> /\ size_index = 1
    /\ SetOk /\ last.key = KeyOf(5) /\ ~last.plive
    /\ LiveKeys(array) = {KeyOf(1), KeyOf(3), KeyOf(4), KeyOf(5)}
    /\ Cardinality(Tombstones(array)) = 1
    /\ array[hash(KeyOf(2), 13)] = DeletedItem
    /\ length = 4

\* C14: contains never raises and is true exactly when the key is held by an
\* Occupied slot, which is exactly when get of the key succeeds.
C14_Contains ==
    /\ \A k \in Letters : contains(Self, k) <=> k \in LiveKeys(array)
    /\ last.op = "contains" =>
          /\ last.raised = "ok"
          /\ last.ret = 1 <=> last.key \in LiveKeys(array)
          /\ last.ret = 1 <=> getitem(Self, last.key).raised = "ok"

\* contains found a live key that sits away from its first slot
C14_Witness ==
    /\ last.op = "contains" /\ last.raised = "ok" /\ last.ret = 1
    /\ array[hash(last.key, table_size(array))].key # last.key

\* C15: count, the value len() returns, is the number of Occupied slots, and
\* 0 <= count <= capacity.
C15_Count ==
    /\ length = Cardinality(Occupied(array))
    /\ 0 <= length /\ length <= table_size(array)
    /\ last.op = "len" => last.ret = Cardinality(Occupied(array))

\* len() returned 4 for a rebuilt table that holds a DeletedItem
C15_Witness ==
    /\ last.op = "len" /\ last.ret = 4
    /\ Cardinality(Occupied(array)) = 4
    /\ size_index = 1 /\ Tombstones(array) # {}

\* ---- hash, hash2 and the probe cycle as functions of the key and capacity ----
HashChars == 4        \* characters "a", "b", ... of the keys that are hashed
MaxKeyLen == 2        \* keys of 0..MaxKeyLen characters
MaxCap == 15          \* capacities 2..MaxCap, prime or not

HashKeys ==
    UNION {[1..n -> {96 + i : i \in 1..HashChars}] : n \in 0..MaxKeyLen}

\* the slots the for-loop of __hashy_probe examines when no slot ends the probe
\* early: every slot holds DeletedItem
ProbeCycle(key, size) == ProbePath([x \in 0..(size - 1) |-> DeletedItem], key)

\* a table constructed with one size, 2..MaxCap
InitHash ==
    /\ TABLE_SIZES \in {<<c>> : c \in 2..MaxCap}
    /\ size_index = 0
    /\ array = ArrayR(TABLE_SIZES[1])
    /\ length = 0
    /\ points = 0
    /\ results_history = <<>>
    /\ NoSeason
    /\ last = NoLast
    /\ latest = <<>>

HashCall(k) ==
    /\ last' = Record("hash", k, 0, "ok", hash(k, table_size(array)), <<>>)
    /\ UNCHANGED <<TABLE_SIZES, size_index, array, length, latest>>
    /\ UNCHANGED team_vars
    /\ UNCHANGED season_vars

Hash2Call(k) ==
    /\ last' = Record("hash2", k, 0, "ok", hash2(k, table_size(array)), <<>>)
    /\ UNCHANGED <<TABLE_SIZES, size_index, array, length, latest>>
    /\ UNCHANGED team_vars
    /\ UNCHANGED season_vars

ProbeCycleCall(k) ==
    /\ last' = Record("probe", k, 0, "ok", 0, ProbeCycle(k, table_size(array)))
    /\ UNCHANGED <<TABLE_SIZES, size_index, array, length, latest>>
    /\ UNCHANGED team_vars
    /\ UNCHANGED season_vars

NextHash ==
    \/ \E k \in HashKeys : HashCall(k)
    \/ \E k \in HashKeys : Hash2Call(k)
    \/ \E k \in HashKeys : ProbeCycleCall(k)

SpecHash == InitHash /\ [][NextHash]_vars

\* C16: for every key and every capacity >= 2, prime or not, hash is in
\* [0, capacity), hash2 is in [1, capacity), and hash2 and the capacity have
\* no common divisor above 1.
C16_HashRanges ==
    /\ last.op = "hash" => (0 <= last.ret /\ last.ret < last.pcap)
    /\ last.op = "hash2" =>
          /\ 1 <= last.ret /\ last.ret < last.pcap
          /\ \A d \in 2..last.pcap : ~(last.ret % d = 0 /\ last.pcap % d = 0)

\* hash2 at capacity 12 moved the step on from a value that divides into 12
C16_Witness ==
    /\ last.op = "hash2" /\ last.pcap = 12
    /\ last.ret # hash2_raw(last.key, 12)
    /\ gcd(hash2_raw(last.key, 12), 12) > 1
    /\ 1 <= last.ret /\ last.ret < 12

\* C17: the c positions (start + i*step) mod c, i = 0..c-1, of one probe cycle
\* are pairwise distinct: the cycle examines every slot exactly once.
C17_FullCycle ==
    last.op = "probe" =>
       /\ Len(last.seq) = last.pcap
       /\ \A i \in 1..Len(last.seq) :
             last.seq[i] = (hash(last.key, last.pcap)
                            + (i - 1) * hash2(last.key, last.pcap)) % last.pcap
       /\ \A i, j \in 1..Len(last.seq) : i # j => last.seq[i] # last.seq[j]
       /\ {last.seq[i] : i \in 1..Len(last.seq)} = 0..(last.pcap - 1)

\* a cycle over 12 slots with a step above 1
C17_Witness ==
    /\ last.op = "probe" /\ last.pcap = 12 /\ Len(last.seq) = 12
    /\ last.seq[2] # (last.seq[1] + 1) % 12
    /\ Cardinality({last.seq[i] : i \in 1..12}) = 12

\* a set call that raised RuntimeError("Table is full")
SetFailed == last.op = "set" /\ last.raised = "RuntimeError"

\* a set call of a key that was not live when it was called
SetOfNewKey == last.op = "set" /\ ~last.plive

C19_LastCapacity ==
    [][(/\ last'.op = "set" /\ ~last'.plive
        /\ size_index = LastIndex
        /\ Tombstones(array) = {})
       => IF length < table_size(array)
          THEN /\ last'.raised = "ok"
               /\ length' = length + 1
               /\ size_index' = size_index
               /\ last'.key \in LiveKeys(array')
          ELSE /\ last'.raised = "RuntimeError"
               /\ array' = array /\ length' = length]_vars

\* the set of a new key failed on a table that sets alone had filled to its
\* capacity, the last of them accepted above 2/3
C19_Witness ==
    /\ SetFailed /\ SetOfNewKey
    /\ last.pidx = LastIndex
    /\ last.plen = last.pcap
    /\ 3 * (last.plen - 1) > 2 * last.pcap
    /\ Tombstones(array) = {}
    /\ Cardinality(Occupied(array)) = table_size(array)

(***************************************************************************)
(* HashyDateTable (src/hashy_date_table.py): the hash of a date key.  A    *)
(* key is the sequence of the 10 character codes of the string; hash reads *)
(* the key and the table size only, so the slots of the date table are     *)
(* left out and the table size is TABLE_SIZES[size_index + 1].             *)
(***************************************************************************)
NumYears == 4         \* years 2021..2020+NumYears, besides 1900 and 2000

DATE_SIZES == <<366, 4 * 366, 16 * 366>>

\* the characters '-' and '/'
Separators == {45, 47}

\* is_leap_year that knows only the rule of four
is_leap_year_div4(year) == year % 4 = 0

is_leap_year(year) ==
    IF year % 400 = 0 THEN TRUE
    ELSE IF year % 100 = 0 THEN FALSE
    ELSE IF year % 4 = 0 THEN TRUE
    ELSE FALSE

days_per_month(year) ==
    IF is_leap_year(year)
    THEN <<31, 29, 31, 30, 31, 30, 31, 31, 30, 31, 30, 31>>
    ELSE <<31, 28, 31, 30, 31, 30, 31, 31, 30, 31, 30, 31>>

\* `for m in range(month - 1): days_of_year += days_per_month[m]`
RECURSIVE DaysLoop(_, _, _, _)
DaysLoop(dpm, m, month, days_of_year) ==
    IF m >= month - 1 THEN days_of_year
    ELSE DaysLoop(dpm, m + 1, month, days_of_year + dpm[m + 1])

\* total_days_of_year that adds up the months of a normal year in every year
total_days_of_year_noleap(year, month, day) ==
    DaysLoop(<<31, 28, 31, 30, 31, 30, 31, 31, 30, 31, 30, 31>>, 0, month, 0)
    + day

total_days_of_year(year, month, day) ==
    DaysLoop(days_per_month(year), 0, month, 0) + day

\* int(s) of a slice of the key: an optional sign and decimal digits, anything
\* else raises ValueError
RECURSIVE IntLoop(_, _, _)
IntLoop(s, i, value) ==
    IF i > Len(s) THEN value ELSE IntLoop(s, i + 1, 10 * value + (s[i] - 48))

ParseInt(s) ==
    LET signed == Len(s) > 1 /\ s[1] \in {43, 45}
        digits == IF signed THEN Tail(s) ELSE s
    IN IF digits # <<>> /\ \A i \in 1..Len(digits) : digits[i] \in 48..57
       THEN [raised |-> "ok",
             ret |-> IF signed /\ s[1] = 45 THEN 0 - IntLoop(digits, 1, 0)
                     ELSE IntLoop(digits, 1, 0)]
       ELSE [raised |-> "ValueError", ret |-> 0]

\* key[a:b] of Python: the characters at offsets a..b-1 that the key has
Slice(key, a, b) ==
    LET stop == IF b < Len(key) THEN b ELSE Len(key)
    IN IF a >= stop THEN <<>> ELSE SubSeq(key, a + 1, stop)

\* hash that looks for the separator at offset 2 of the key
HashyDateTable_hash_offset2(key, size) ==
    LET year_first == key[3] \in Separators
        year == ParseInt(IF year_first THEN Slice(key, 0, 4)
                         ELSE Slice(key, 6, 10))
        month == ParseInt(IF year_first THEN Slice(key, 5, 7)
                          ELSE Slice(key, 3, 5))
        day == ParseInt(IF year_first THEN Slice(key, 8, 10)
                        ELSE Slice(key, 0, 2))
    IN IF Len(key) < 3
       THEN [raised |-> "IndexError", ret |-> 0]
       ELSE IF year.raised # "ok" \/ month.raised # "ok" \/ day.raised # "ok"
       THEN [raised |-> "ValueError", ret |-> 0]
       ELSE LET days_of_year ==
                    total_days_of_year(year.ret, month.ret, day.ret)
                c == size \div 366
            IN [raised |-> "ok",
                ret |-> ((days_of_year - 1) * c + (year.ret % c)) % size]

\* hash that reads a day-first key as MM-DD-YYYY
HashyDateTable_hash_monthfirst(key, size) ==
    LET year_first == key[5] \in Separators
        year == ParseInt(IF year_first THEN Slice(key, 0, 4)
                         ELSE Slice(key, 6, 10))
        month == ParseInt(IF year_first THEN Slice(key, 5, 7)
                          ELSE Slice(key, 0, 2))
        day == ParseInt(IF year_first THEN Slice(key, 8, 10)
                        ELSE Slice(key, 3, 5))
    IN IF Len(key) < 5
       THEN [raised |-> "IndexError", ret |-> 0]
       ELSE IF year.raised # "ok" \/ month.raised # "ok" \/ day.raised # "ok"
       THEN [raised |-> "ValueError", ret |-> 0]
       ELSE LET days_of_year ==
                    total_days_of_year(year.ret, month.ret, day.ret)
                c == size \div 366
            IN [raised |-> "ok",
                ret |-> ((days_of_year - 1) * c + (year.ret % c)) % size]

\* HashyDateTable.hash; key[4] of the code is key[5] here and raises
\* IndexError for a key of fewer than 5 characters
HashyDateTable_hash(key, size) ==
    LET year_first == key[5] \in Separators
        year == ParseInt(IF year_first THEN Slice(key, 0, 4)
                         ELSE Slice(key, 6, 10))
        month == ParseInt(IF year_first THEN Slice(key, 5, 7)
                          ELSE Slice(key, 3, 5))
        day == ParseInt(IF year_first THEN Slice(key, 8, 10)
                        ELSE Slice(key, 0, 2))
    IN IF Len(key) < 5
       THEN [raised |-> "IndexError", ret |-> 0]
       ELSE IF year.raised # "ok" \/ month.raised # "ok" \/ day.raised # "ok"
       THEN [raised |-> "ValueError", ret |-> 0]
       ELSE LET days_of_year ==
                    total_days_of_year(year.ret, month.ret, day.ret)
                c == size \div 366
            IN [raised |-> "ok",
                ret |-> ((days_of_year - 1) * c + (year.ret % c)) % size]

\* the decimal digits of n, `width` characters wide
RECURSIVE Digits(_, _)
Digits(n, width) ==
    IF width = 0 THEN <<>>
    ELSE Append(Digits(n \div 10, width - 1), 48 + (n % 10))

\* the key of a date: YYYY-MM-DD, YYYY/MM/DD, DD-MM-YYYY or DD/MM/YYYY
DateKey(year_first, sep, year, month, day) ==
    IF year_first
    THEN Digits(year, 4) \o <<sep>> \o Digits(month, 2) \o <<sep>>
         \o Digits(day, 2)
    ELSE Digits(day, 2) \o <<sep>> \o Digits(month, 2) \o <<sep>>
         \o Digits(year, 4)

DateYears == {1900, 2000} \cup 2021..(2020 + NumYears)

\* the valid dates of the years of the model
ValidDates ==
    {ymd \in DateYears \X (1..12) \X (1..31) :
        ymd[3] <= days_per_month(ymd[1])[ymd[2]]}

DateKeys ==
    {DateKey(year_first, sep, ymd[1], ymd[2], ymd[3]) :
        year_first \in BOOLEAN, sep \in Separators, ymd \in ValidDates}

\* a date table at one of its three sizes and the key that is about to be
\* hashed
InitDate ==
    /\ TABLE_SIZES = DATE_SIZES
    /\ size_index \in 0..(Len(DATE_SIZES) - 1)
    /\ array = <<>>
    /\ length = 0
    /\ points = 0
    /\ results_history = <<>>
    /\ NoSeason
    /\ latest = <<>>
    /\ \E k \in DateKeys :
          last = [NoLast EXCEPT !.key = k, !.pidx = size_index,
                                !.pcap = DATE_SIZES[size_index + 1]]

DateHashCall ==
    LET r == HashyDateTable_hash(last.key, TABLE_SIZES[size_index + 1])
    IN /\ last' = [last EXCEPT !.op = "date_hash", !.raised = r.raised,
                               !.ret = r.ret]
       /\ UNCHANGED <<TABLE_SIZES, size_index, array, length, latest>>
       /\ UNCHANGED team_vars
       /\ UNCHANGED season_vars

NextDate == DateHashCall

SpecDate == InitDate /\ [][NextDate]_vars

\* C20: for every valid date key in each of the four formats and each of the
\* sizes 366, 4*366, 16*366, HashyDateTable.hash returns a value in
\* [0, table size) without raising, leap days included; at size 366 the
\* hashes of "2024-01-01" and "2024-12-31" differ and both are in [0, 366).
C20_DateHash ==
    /\ last.op = "date_hash" =>
          /\ last.raised = "ok"
          /\ 0 <= last.ret /\ last.ret < last.pcap
    /\ LET first == HashyDateTable_hash(DateKey(TRUE, 45, 2024, 1, 1), 366)
           final == HashyDateTable_hash(DateKey(TRUE, 45, 2024, 12, 31), 366)
       IN /\ first.raised = "ok" /\ final.raised = "ok"
          /\ first.ret # final.ret
          /\ first.ret \in 0..365 /\ final.ret \in 0..365

\* the leap day "29/02/2024" hashed at size 16*366
C20_Witness ==
    /\ last.op = "date_hash" /\ last.raised = "ok"
    /\ last.key = <<50, 57, 47, 48, 50, 47, 50, 48, 50, 52>>
    /\ last.pcap = 16 * 366
    /\ last.ret = 952

\* the date <<year, month, day>> a 10-character key stands for, read off the
\* digits; a day-first key has its separator at the third character
DateOfKey(key) ==
    LET two(i) == (key[i] - 48) * 10 + (key[i + 1] - 48)
        four(i) == two(i) * 100 + two(i + 2)
    IN IF key[3] \in Separators
       THEN <<four(7), two(4), two(1)>>
       ELSE <<four(1), two(6), two(9)>>

\* whether <<year, month, day>> is a date of the calendar
IsDate(year, month, day) == day <= days_per_month(year)[month]

\* the position of a date among the dates of its year, counted from 1
\* (0 where month and day are not a date of the year)
DayNumbers ==
    [year \in DateYears |-> [month \in 1..12 |-> [day \in 1..31 |->
        IF IsDate(year, month, day)
        THEN Cardinality({md \in (1..12) \X (1..31) :
                             /\ IsDate(year, md[1], md[2])
                             /\ \/ md[1] < month
                                \/ (md[1] = month /\ md[2] <= day)})
        ELSE 0]]]

\* the hash of every date at each of the three sizes (-1 where month and day
\* are not a date of the year)
DateHashes ==
    [idx \in 1..Len(DATE_SIZES) |->
        [year \in DateYears |-> [month \in 1..12 |-> [day \in 1..31 |->
            IF IsDate(year, month, day)
            THEN HashyDateTable_hash(DateKey(TRUE, 45, year, month, day),
                                     DATE_SIZES[idx]).ret
            ELSE 0 - 1]]]]

\* C21: at table size 366*c the hash of a valid date is
\* ((day_of_year - 1) * c + (year mod c)) mod table size, so the hash gives
\* back the day of the year and year mod c: two valid dates have the same
\* hash exactly when they agree on both, and two different days of one year
\* never collide.
C21_DateHashFormula ==
    last.op = "date_hash" =>
       LET ymd == DateOfKey(last.key)
           c == last.pcap \div 366
           days_of_year == DayNumbers[ymd[1]][ymd[2]][ymd[3]]
           hashes == DateHashes[last.pidx + 1]
       IN /\ last.pcap = 366 * c
          /\ last.ret = ((days_of_year - 1) * c + (ymd[1] % c)) % last.pcap
          /\ last.ret \div c = days_of_year - 1
          /\ last.ret % c = ymd[1] % c
          /\ \A month \in 1..12, day \in 1..31 :
                (month # ymd[2] \/ day # ymd[3])
                   => hashes[ymd[1]][month][day] # last.ret
          /\ \A year \in DateYears,
                month \in (ymd[2] - 1)..(ymd[2] + 1) \cap 1..12,
                day \in 1..31 :
                IsDate(year, month, day)
                   => ((hashes[year][month][day] = last.ret)
                         <=> (/\ DayNumbers[year][month][day] = days_of_year
                              /\ year % c = ymd[1] % c))

\* "01/03/2024" hashed at size 4*366: day 61 of a leap year; 1 March of 2000,
\* a leap year with the same year mod 4, has the same hash, 1 March of 2023
\* has not
C21_Witness ==
    /\ last.op = "date_hash" /\ last.raised = "ok"
    /\ last.key = DateKey(FALSE, 47, 2024, 3, 1)
    /\ last.pcap = 4 * 366
    /\ last.ret = 60 * 4
    /\ DateHashes[2][2000][3][1] = last.ret
    /\ DateHashes[2][2023][3][1] # last.ret

\* ---- HashyDateTable.hash of keys that are not 10 characters long ----
MaxExtra == 1         \* characters appended to a date key

\* the dates whose keys are cut short or extended
SampleDates == {<<2024, 2, 29>>, <<2023, 12, 31>>, <<2000, 1, 1>>}

RECURSIVE Extend(_, _)
Extend(key, n) == IF n = 0 THEN key ELSE Extend(Append(key, 49), n - 1)

\* the first 0..9 characters of a date key, and a date key followed by "1"s
WrongLengthKeys ==
    LET sample == {DateKey(year_first, sep, ymd[1], ymd[2], ymd[3]) :
                      year_first \in BOOLEAN, sep \in Separators,
                      ymd \in SampleDates}
    IN {Slice(k, 0, n) : k \in sample, n \in 0..9}
       \cup {Extend(k, n) : k \in sample, n \in 1..MaxExtra}

InitDateKeys ==
    /\ TABLE_SIZES = DATE_SIZES
    /\ size_index \in 0..(Len(DATE_SIZES) - 1)
    /\ array = <<>>
    /\ length = 0
    /\ points = 0
    /\ results_history = <<>>
    /\ NoSeason
    /\ latest = <<>>
    /\ \E k \in WrongLengthKeys :
          last = [NoLast EXCEPT !.key = k, !.pidx = size_index,
                                !.pcap = DATE_SIZES[size_index + 1]]

SpecDateKeys == InitDateKeys /\ [][NextDate]_vars

\* C22: HashyDateTable.hash raises an error for every key whose length is not
\* 10 and returns no hash value for it.
C22_RejectsWrongLength ==
    (last.op = "date_hash" /\ Len(last.key) # 10) => last.raised # "ok"

(***************************************************************************)
(* Team.posts (src/team.py): a HashyDateTable keyed by the post date.  The *)
(* table is a LinearProbeTable whose hash is HashyDateTable.hash: the      *)
(* probe starts at the hash of the key, moves on by 1, and takes a slot    *)
(* that is None or holds the same key string.                              *)
(***************************************************************************)
MaxPost == 2          \* post contents 1..MaxPost

\* one day in the four formats
PostKeys ==
    {DateKey(year_first, sep, 2024, 1, 1) :
        year_first \in BOOLEAN, sep \in Separators}

PostDays == {DateOfKey(k) : k \in PostKeys}

linear_probe(arr, key, is_insert) ==
    ProbeLoop(arr, key, is_insert,
              HashyDateTable_hash(key, table_size(arr)).ret, 1, NoPos,
              table_size(arr))

\* LinearProbeTable.__setitem__ below the load threshold of the table (the
\* posts of the model stay far below it)
posts_setitem(t, key, data) ==
    LET position == linear_probe(t.array, key, TRUE)
    IN IF position = RuntimeError
       THEN [t EXCEPT !.raised = "RuntimeError"]
       ELSE [t EXCEPT !.array[position] = Item(key, data),
                      !.length = IF t.array[position].tag = "Item"
                                 THEN t.length ELSE t.length + 1]

\* Team.__init__: self.posts = HashyDateTable()
InitPosts ==
    /\ TABLE_SIZES = DATE_SIZES
    /\ size_index = 0
    /\ array = ArrayR(TABLE_SIZES[1])
    /\ length = 0
    /\ points = 0
    /\ results_history = <<>>
    /\ NoSeason
    /\ last = NoLast
    /\ latest = [day \in PostDays |-> 0]

\* Team.make_post: self.posts[post_date] = post_content; latest keeps the
\* content of the most recent post of each calendar day
make_post(post_date, post_content) ==
    LET t == posts_setitem(Self, post_date, post_content)
    IN /\ array' = t.array
       /\ length' = t.length
       /\ size_index' = t.size_index
       /\ last' = [NoLast EXCEPT !.op = "make_post", !.raised = t.raised]
       /\ latest' = [latest EXCEPT ![DateOfKey(post_date)] = post_content]
       /\ UNCHANGED TABLE_SIZES
       /\ UNCHANGED team_vars
       /\ UNCHANGED season_vars

NextPosts == \E k \in PostKeys, c \in 1..MaxPost : make_post(k, c)

SpecPosts == InitPosts /\ [][NextPosts]_vars

\* the slots that hold a post of a calendar day
PostsOfDay(day) == {x \in Occupied(array) : DateOfKey(array[x].key) = day}

\* C23: after any sequence of make_post calls, with dates in any of the four
\* formats, the team holds at most one post per calendar day and that post is
\* the content of the most recent make_post for the day.
C23_OnePostPerDay ==
    \A day \in PostDays :
       /\ Cardinality(PostsOfDay(day)) <= 1
       /\ latest[day] # 0 =>
             \E x \in PostsOfDay(day) : array[x].value = latest[day]

(***************************************************************************)
(* Team.points and Team.results_history (src/team.py).  results_history is *)
(* a CircularQueue of history_length slots: an array, the index of its     *)
(* front item, the index its next item goes to, and its length.            *)
(***************************************************************************)
MaxHistory == 2       \* history_length 1..MaxHistory
MaxResults == 4       \* add_result calls of one behaviour

\* TeamGameResult.LOSS, DRAW and WIN by their .value
TeamGameResult == {0, 1, 3}

CircularQueue(max_capacity) ==
    [array |-> [x \in 0..(max_capacity - 1) |-> 0 - 1],
     front |-> 0, rear |-> 0, length |-> 0]

is_full(q) == q.length = Cardinality(DOMAIN q.array)

\* removes the front item by moving front on
serve(q) ==
    [q EXCEPT !.length = @ - 1,
              !.front = (@ + 1) % Cardinality(DOMAIN q.array)]

\* stores the item at rear and moves rear on
append(q, item) ==
    [q EXCEPT !.array[q.rear] = item,
              !.length = @ + 1,
              !.rear = (@ + 1) % Cardinality(DOMAIN q.array)]

\* the items of the queue from its front to its rear
QueueItems(q) ==
    [i \in 1..q.length |->
        q.array[(q.front + i - 1) % Cardinality(DOMAIN q.array)]]

\* add_result that leaves a full history as it is
add_result_keep(pts, q, result) ==
    [points |-> pts + result,
     results_history |-> IF is_full(q) THEN q ELSE append(q, result)]

add_result(pts, q, result) ==
    [points |-> pts + result,
     results_history |-> append(IF is_full(q) THEN serve(q) ELSE q, result)]

\* Team.__init__ with history_length in 1..MaxHistory; latest is the sequence
\* of all results added so far
InitHistory ==
    /\ TABLE_SIZES = DATE_SIZES
    /\ size_index = 0
    /\ array = <<>>
    /\ length = 0
    /\ last = NoLast
    /\ latest = <<>>
    /\ points = 0
    /\ NoSeason
    /\ \E history_length \in 1..MaxHistory :
          results_history = CircularQueue(history_length)

AddResult(result) ==
    LET t == add_result(points, results_history, result)
    IN /\ Len(latest) < MaxResults
       /\ points' = t.points
       /\ results_history' = t.results_history
       /\ latest' = Append(latest, result)
       /\ last' = [NoLast EXCEPT !.op = "add_result", !.val = result]
       /\ UNCHANGED <<TABLE_SIZES, size_index, array, length>>
       /\ UNCHANGED season_vars

\* get_history: ret 0 stands for None, ret 1 for the queue, whose items are
\* kept in seq
GetHistory ==
    /\ last' = IF results_history.length = 0
               THEN [NoLast EXCEPT !.op = "get_history", !.ret = 0]
               ELSE [NoLast EXCEPT !.op = "get_history", !.ret = 1,
                                   !.seq = QueueItems(results_history)]
    /\ UNCHANGED <<TABLE_SIZES, size_index, array, length, latest>>
    /\ UNCHANGED team_vars
    /\ UNCHANGED season_vars

NextHistory ==
    \/ \E result \in TeamGameResult : AddResult(result)
    \/ GetHistory

SpecHistory == InitHistory /\ [][NextHistory]_vars

RECURSIVE SumSeq(_)
SumSeq(seq) == IF seq = <<>> THEN 0 ELSE Head(seq) + SumSeq(Tail(seq))

\* the last min(n, h) of the n results added so far
MostRecent ==
    LET n == Len(latest)
        h == Cardinality(DOMAIN results_history.array)
    IN SubSeq(latest, (IF n > h THEN n - h ELSE 0) + 1, n)

\* C24: after n add_result calls on a team with history_length h >= 1,
\* get_history returns None when n = 0 and otherwise the most recent
\* min(n, h) results in the order they were added, and points is the sum of
\* the values of all n results.
C24_History ==
    /\ points = SumSeq(latest)
    /\ QueueItems(results_history) = MostRecent
    /\ last.op = "get_history" =>
          IF Len(latest) = 0
          THEN last.ret = 0
          ELSE last.ret = 1 /\ last.seq = MostRecent

\* get_history after more results than the history holds, of different values
C24_Witness ==
    /\ last.op = "get_history" /\ last.ret = 1
    /\ Len(latest) > Cardinality(DOMAIN results_history.array)
    /\ Len(last.seq) = 2
    /\ last.seq[1] # last.seq[2]
    /\ latest[1] # last.seq[1]
    /\ points > 0

(***************************************************************************)
(* Player.stats (src/player.py): a LazyDoubleTable with the default sizes, *)
(* written by Player.__setitem__ and reset_stats and read by               *)
(* Player.__getitem__.                                                      *)
(***************************************************************************)
\* `for stat in keys: self.stats[stat] = 0`, from the i-th key on
RECURSIVE ResetLoop(_, _, _)
ResetLoop(t, stats, i) ==
    IF i > Len(stats) \/ t.raised # "ok" THEN t
    ELSE ResetLoop(setitem(t, stats[i], 0), stats, i + 1)

\* reset_stats that passes over the first key keys() returns
reset_stats_skipfirst(t) ==
    LET r == keys(t)
    IN IF r.raised # "ok" THEN [t EXCEPT !.raised = r.raised]
       ELSE ResetLoop(t, r.seq, 2)

reset_stats(t) ==
    LET r == keys(t)
    IN IF r.raised # "ok" THEN [t EXCEPT !.raised = r.raised]
       ELSE ResetLoop(t, r.seq, 1)

\* Player.__init__: self.stats = LazyDoubleTable(); latest is the value each
\* statistic is to have: the value of its last set, 0 once reset_stats was
\* called after it, -1 for a statistic that was never set
InitPlayer ==
    /\ TABLE_SIZES = <<5, 13, 29>>
    /\ size_index = 0
    /\ array = ArrayR(TABLE_SIZES[1])
    /\ length = 0
    /\ last = NoLast
    /\ latest = [k \in Keys |-> 0 - 1]
    /\ points = 0
    /\ results_history = <<>>
    /\ NoSeason

PlayerSetItem(statistic, value) ==
    LET t == setitem(Self, statistic, value)
    IN /\ array' = t.array
       /\ length' = t.length
       /\ size_index' = t.size_index
       /\ last' = Record("set", statistic, value, t.raised, 0, <<>>)
       /\ latest' = IF t.raised = "ok"
                    THEN [latest EXCEPT ![statistic] = value] ELSE latest
       /\ UNCHANGED <<TABLE_SIZES, points, results_history>>
       /\ UNCHANGED season_vars

PlayerGetItem(statistic) ==
    LET r == getitem(Self, statistic)
    IN /\ last' = Record("get", statistic, 0, r.raised, r.ret, <<>>)
       /\ UNCHANGED <<TABLE_SIZES, size_index, array, length, latest>>
       /\ UNCHANGED team_vars
       /\ UNCHANGED season_vars

ResetStats ==
    LET t == reset_stats(Self)
    IN /\ array' = t.array
       /\ length' = t.length
       /\ size_index' = t.size_index
       /\ last' = Record("reset_stats", <<>>, 0, t.raised, 0, <<>>)
       /\ latest' = [k \in DOMAIN latest |->
                        IF latest[k] >= 0 THEN 0 ELSE latest[k]]
       /\ UNCHANGED <<TABLE_SIZES, points, results_history>>
       /\ UNCHANGED season_vars

NextPlayer ==
    \/ \E k \in Keys, v \in Values : PlayerSetItem(k, v)
    \/ \E k \in Keys : PlayerGetItem(k)
    \/ ResetStats

SpecPlayer == InitPlayer /\ [][NextPlayer]_vars

\* C25: reset_stats leaves every statistic that was set through
\* Player.__setitem__ present with value 0, adds and removes no key, and
\* keeps the number of statistics and the capacity of the table.
C25_ResetStats ==
    /\ [](/\ LiveKeys(array) = {k \in Keys : latest[k] >= 0}
          /\ \A k \in LiveKeys(array) : getitem(Self, k).ret = latest[k])
    /\ [][last'.op = "reset_stats" =>
             /\ last'.raised = "ok"
             /\ array' = [x \in DOMAIN array |->
                             IF array[x].tag = "Item"
                             THEN Item(array[x].key, 0) ELSE array[x]]
             /\ \A k \in LiveKeys(array) :
                   /\ getitem(Table(array', length', size_index'), k).raised
                         = "ok"
                   /\ getitem(Table(array', length', size_index'), k).ret = 0
             /\ LiveKeys(array') = LiveKeys(array)
             /\ length' = length
             /\ size_index' = size_index
             /\ table_size(array') = table_size(array)]_vars

\* reset_stats of a player whose four statistics, set to positive values, sit
\* in the rebuilt table of 13 slots
C25_Witness ==
    /\ last.op = "reset_stats" /\ last.raised = "ok"
    /\ last.plen = 4 /\ length = 4 /\ size_index = 1
    /\ \A k \in Keys : latest[k] = 0 /\ getitem(Self, k).ret = 0

\* ---- where an insert writes ----
\* the probe of key ends at a None slot
ReachesEmpty(arr, key) ==
    LET path == ProbePath(arr, key)
    IN path # <<>> /\ arr[path[Len(path)]].tag = "None"

\* the first DeletedItem slot on the probe path of key if there is one, else
\* the last slot of the path
InsertSlot(arr, key) ==
    LET path == ProbePath(arr, key)
        deleted == {i \in 1..Len(path) : arr[path[i]].tag = "Deleted"}
    IN IF deleted = {}
       THEN path[Len(path)]
       ELSE path[CHOOSE i \in deleted : \A j \in deleted : i <= j]

\* C26 as stated: a set of a key that is not live, whose probe path reaches a
\* None slot, writes the entry into the first DeletedItem on the path before
\* that slot if there is one, else into that None slot, and modifies no other
\* slot.
C26_InsertSlot ==
    [][(/\ last'.op = "set" /\ ~last'.plive
        /\ ReachesEmpty(array, last'.key))
       => array' = [array EXCEPT ![InsertSlot(array, last'.key)] =
                                     Item(last'.key, last'.val)]]_vars

\* C26 as amended: the same when the set triggers no rebuild; when it does,
\* the entry is written that way first and the table with the entry is then
\* rebuilt into the next capacity.
C26_InsertSlotThenRebuild ==
    [][(/\ last'.op = "set" /\ ~last'.plive
        /\ ReachesEmpty(array, last'.key))
       => LET written == [array EXCEPT ![InsertSlot(array, last'.key)] =
                                          Item(last'.key, last'.val)]
          IN /\ last'.raised = "ok"
             /\ IF size_index' = size_index
                THEN array' = written /\ length' = length + 1
                ELSE Table(array', length', size_index')
                        = rehash(Table(written, length + 1, size_index))]_vars

\* an insert without a rebuild that took a DeletedItem further down its
\* probe path than the key's first slot, which another key holds
C26_Witness ==
    /\ SetOk /\ ~last.plive /\ last.ptomb /\ ~Rebuilt
    /\ EmptySlots(array) # {}
    /\ array[hash(last.key, table_size(array))].tag = "Item"
    /\ array[hash(last.key, table_size(array))].key # last.key
    /\ last.key \in LiveKeys(array)

\* C27: a set of a live key whose probe path crosses one or more DeletedItem
\* slots before the key's slot overwrites that slot in place and leaves the
\* DeletedItem slots as they are: no second entry for the key appears.
C27_UpdatePastTombstones ==
    [][(/\ last'.op = "set" /\ last'.plive
        /\ TombstoneOnPath(array, last'.key))
       => /\ last'.raised = "ok"
          /\ \E p \in Occupied(array) :
                /\ array[p].key = last'.key
                /\ array' = [array EXCEPT ![p] = Item(last'.key, last'.val)]
          /\ Tombstones(array') = Tombstones(array)
          /\ Cardinality({x \in Occupied(array') :
                             array'[x].key = last'.key}) = 1
          /\ length' = length
          /\ size_index' = size_index]_vars

\* a live key got a new value past a DeletedItem that is still on its path
C27_Witness ==
    /\ SetOk /\ last.plive /\ last.ptomb /\ ~Rebuilt
    /\ TombstoneOnPath(array, last.key)
    /\ getitem(Self, last.key).ret = last.val
    /\ last.val = MaxVal
    /\ length = last.plen

\* C28: a delete of k1 changes nothing for the other keys: for every key
\* k2 # k1, get(k2) and contains(k2) give after the delete what they gave
\* before it, also when k1's slot is on the probe path of k2 before k2's slot.
C28_DeleteFrame ==
    [][last'.op = "del" =>
          \A k2 \in Letters \ {last'.key} :
             /\ getitem(Table(array', length', size_index'), k2)
                   = getitem(Self, k2)
             /\ contains(Table(array', length', size_index'), k2)
                   = contains(Self, k2)]_vars

\* a key was deleted, its slot is the only DeletedItem of the array, and the
\* probe of a live key crosses it
C28_Witness ==
    /\ last.op = "del" /\ last.raised = "ok"
    /\ Cardinality(Tombstones(array)) = 1
    /\ \E k2 \in LiveKeys(array) :
          /\ TombstoneOnPath(array, k2)
          /\ getitem(Self, k2).ret = LetterVal(k2)

\* ---- the length of a probe ----
\* the number of slots the for-loop of __hashy_probe has examined when it
\* returns or runs out; n is the number of iterations left
RECURSIVE ExaminedLoop(_, _, _, _, _, _)
ExaminedLoop(arr, key, position, step, n, examined) ==
    IF n = 0 THEN examined
    ELSE LET current_item == arr[position]
         IN IF current_item.tag = "None"
               \/ (current_item.tag = "Item" /\ current_item.key = key)
            THEN examined + 1
            ELSE ExaminedLoop(arr, key, (position + step) % table_size(arr),
                              step, n - 1, examined + 1)

\* a probe whose loop runs for twice the table size
ProbeExamined_twice(arr, key) ==
    ExaminedLoop(arr, key, hash(key, table_size(arr)),
                 hash2(key, table_size(arr)), 2 * table_size(arr), 0)

ProbeExamined(arr, key) ==
    ExaminedLoop(arr, key, hash(key, table_size(arr)),
                 hash2(key, table_size(arr)), table_size(arr), 0)

\* C29: in every reachable state, also with no None slot in the array, the
\* probe of every key examines at most table_size slots and then returns a
\* slot or raises KeyError (lookup) or RuntimeError "Table is full" (insert).
C29_ProbeBounded ==
    \A k \in Letters :
       /\ ProbeExamined(array, k) >= 1
       /\ ProbeExamined(array, k) <= table_size(array)
       /\ hashy_probe(array, k, FALSE) \in DOMAIN array \cup {KeyError}
       /\ hashy_probe(array, k, TRUE) \in DOMAIN array \cup {RuntimeError}
       /\ (EmptySlots(array) = {} /\ k \notin LiveKeys(array)) =>
             /\ ProbeExamined(array, k) = table_size(array)
             /\ hashy_probe(array, k, FALSE) = KeyError
             /\ hashy_probe(array, k, TRUE) = RuntimeError

\* a set went through every slot of an array of Occupied slots and
\* DeletedItems and raised "Table is full"
C29_Witness ==
    /\ SetFailed /\ SetOfNewKey
    /\ EmptySlots(array) = {}
    /\ Tombstones(array) # {} /\ Occupied(array) # {}
    /\ ProbeExamined(array, last.key) = table_size(array)
    /\ hashy_probe(array, last.key, TRUE) = RuntimeError

\* C30: a single set advances size_index by at most one position of
\* TABLE_SIZES, whatever ascending sequence of sizes the table was built with.
C30_OneStepGrowth ==
    last.op = "set" => size_index <= last.pidx + 1

\* C31: a set that raises "Table is full" leaves array, length, table size and
\* size_index as they were before the call, and every key that was live
\* before the call is still found with the value it had.
C31_FailedSetFrame ==
    [][(last'.op = "set" /\ last'.raised = "RuntimeError") =>
          /\ array' = array
          /\ length' = length
          /\ size_index' = size_index
          /\ table_size(array') = table_size(array)
          /\ \A k \in LiveKeys(array) :
                getitem(Table(array', length', size_index'), k)
                   = getitem(Self, k)]_vars

\* a set of a new key failed on an array that holds live keys next to
\* DeletedItems, and every live key is still found
C31_Witness ==
    /\ SetFailed /\ SetOfNewKey
    /\ length = last.plen /\ size_index = last.pidx
    /\ Cardinality(LiveKeys(array)) >= 2
    /\ Tombstones(array) # {}
    /\ \A k \in LiveKeys(array) : getitem(Self, k).ret = LetterVal(k)

ReadOps == {"get", "contains", "len", "keys", "values"}

\* C32: get, contains, len, keys and values never modify the table: array,
\* length, table size and size_index are after the call what they were before
\* it, whether the call returns or raises.
C32_ReadsFrame ==
    [][last'.op \in ReadOps =>
          /\ array' = array
          /\ length' = length
          /\ size_index' = size_index
          /\ table_size(array') = table_size(array)
          /\ TABLE_SIZES' = TABLE_SIZES]_vars

\* a get raised KeyError for a key that is not in the table, on an array
\* holding live keys and a DeletedItem, and left the table as it was
C32_Witness ==
    /\ last.op = "get" /\ last.raised = "KeyError"
    /\ last.key \notin LiveKeys(array)
    /\ length = last.plen /\ size_index = last.pidx
    /\ LiveKeys(array) # {} /\ Tombstones(array) # {}
    /\ Cardinality(LiveKeys(array)) = length

\* ---- the four spellings of a date ----
\* the year, month and day that hash reads from a key: the branch on key[4]
\* and the int() of the three slices
ParseDate(key) ==
    LET year_first == key[5] \in Separators
    IN IF year_first
       THEN <<ParseInt(Slice(key, 0, 4)).ret, ParseInt(Slice(key, 5, 7)).ret,
              ParseInt(Slice(key, 8, 10)).ret>>
       ELSE <<ParseInt(Slice(key, 6, 10)).ret, ParseInt(Slice(key, 3, 5)).ret,
              ParseInt(Slice(key, 0, 2)).ret>>

\* the keys DD/MM/YYYY, DD-MM-YYYY, YYYY/MM/DD and YYYY-MM-DD of a date
Spellings(ymd) ==
    {DateKey(year_first, sep, ymd[1], ymd[2], ymd[3]) :
        year_first \in BOOLEAN, sep \in Separators}

\* C33: for every valid date and every size of the date table, the four keys
\* DD/MM/YYYY, DD-MM-YYYY, YYYY/MM/DD and YYYY-MM-DD of the date are parsed to
\* the same year, month and day and have the same hash.
C33_SpellingsAgree ==
    last.op = "date_hash" =>
       LET ymd == DateOfKey(last.key)
       IN /\ Cardinality(Spellings(ymd)) = 4
          /\ last.key \in Spellings(ymd)
          /\ \A k \in Spellings(ymd) :
                /\ ParseDate(k) = ymd
                /\ HashyDateTable_hash(k, last.pcap).raised = "ok"
                /\ HashyDateTable_hash(k, last.pcap).ret = last.ret

\* "2023-02-12" hashed at size 16*366: a date whose day and month differ and
\* are both possible months; "12/02/2023" has the same hash
C33_Witness ==
    /\ last.op = "date_hash" /\ last.raised = "ok"
    /\ last.key = DateKey(TRUE, 45, 2023, 2, 12)
    /\ last.pcap = 16 * 366
    /\ ParseDate(DateKey(FALSE, 47, 2023, 2, 12)) = <<2023, 2, 12>>
    /\ HashyDateTable_hash(DateKey(FALSE, 47, 2023, 2, 12), last.pcap).ret
          = last.ret
    /\ last.ret = 42 * 16 + 7

\* ---- leap years and the day of the year ----
\* a year that is not a leap year, to compare the other years with
NormalYear == 2023

\* C34: is_leap_year(y) is true exactly when y is divisible by 400, or by 4
\* and not by 100; for every valid date total_days_of_year is the day number
\* of the date, between 1 and 366; 31 December is day 366 of a leap year and
\* day 365 of any other year; from 1 March on a date of a leap year is one
\* day later than the same month and day of a year that is not a leap year.
C34_LeapYearDays ==
    /\ \A y \in DateYears :
          is_leap_year(y) <=> (y % 400 = 0 \/ (y % 4 = 0 /\ y % 100 # 0))
    /\ last.op = "date_hash" =>
          LET ymd == DateOfKey(last.key)
              year == ymd[1]
              month == ymd[2]
              day == ymd[3]
              days_of_year == total_days_of_year(year, month, day)
          IN /\ days_of_year \in 1..366
             /\ days_of_year = DayNumbers[year][month][day]
             /\ (month = 12 /\ day = 31) =>
                   days_of_year = IF is_leap_year(year) THEN 366 ELSE 365
             /\ (month = 1 /\ day = 1) => days_of_year = 1
             /\ IsDate(NormalYear, month, day) =>
                   days_of_year
                      = total_days_of_year(NormalYear, month, day)
                        + (IF is_leap_year(year) /\ month >= 3 THEN 1 ELSE 0)

\* "31/12/2024" was hashed: day 366 of a leap year, where 31 December 2023 is
\* day 365 and 31 December 1900, a year divisible by 100 and not by 400, too
C34_Witness ==
    /\ last.op = "date_hash" /\ last.raised = "ok"
    /\ last.key = DateKey(FALSE, 47, 2024, 12, 31)
    /\ is_leap_year(2024) /\ is_leap_year(2000)
    /\ ~is_leap_year(1900) /\ ~is_leap_year(NormalYear)
    /\ total_days_of_year(2024, 12, 31) = 366
    /\ total_days_of_year(1900, 12, 31) = 365
    /\ total_days_of_year(2024, 3, 1)
          = total_days_of_year(NormalYear, 3, 1) + 1

(***************************************************************************)
(* Season (src/season.py): the schedule built by _generate_schedule, the   *)
(* weeks moved by delay_week_of_games and the leaderboard kept by          *)
(* simulate_season.  A team is known by its name; a game is the pair       *)
(* <<home_team, away_team>>.                                                *)
(***************************************************************************)
MaxTeams == 4         \* a season has 2..MaxTeams teams

TeamNames == {KeyOf(i) : i \in 1..MaxTeams}

\* the sequences of n teams with distinct names
TeamLists(n) ==
    {list \in [1..n -> TeamNames] :
        \A i, j \in 1..n : i # j => list[i] # list[j]}

Game(home_team, away_team) == <<home_team, away_team>>

\* `for i in range(num_teams): for j in range(i + 1, num_teams)`: the games
\* of teams[i] against every later team, from pair (i, j) on
RECURSIVE Matchups(_, _, _, _)
Matchups(list, i, j, games) ==
    IF i > Len(list) THEN games
    ELSE IF j > Len(list) THEN Matchups(list, i + 1, i + 2, games)
    ELSE Matchups(list, i, j + 1, Append(games, Game(list[i], list[j])))

\* ArrayList.remove(game): the list without its first item equal to game
RemoveGame(games, game) ==
    LET at == CHOOSE x \in 1..Len(games) :
                 /\ games[x] = game
                 /\ \A y \in 1..(x - 1) : games[y] # game
    IN SubSeq(games, 1, at - 1) \o SubSeq(games, at + 1, Len(games))

\* one pass of `for game in games` with games.remove(game) in its body.
\* live: the iterator reads the list by index as it is now, so the game that
\* moves into the place of a removed game is passed over in this pass;
\* otherwise the iterator goes over the games the list had when the pass
\* began.  iterated is the list the iterator reads, idx its next index.
RECURSIVE WeekPass_keep(_, _, _, _, _, _, _)
RECURSIVE WeekPass(_, _, _, _, _, _, _)

\* a pass that leaves the games it schedules in the list
WeekPass_keep(iterated, idx, games, used_teams, current_week, flipped_week, live) ==
    IF idx > Len(iterated)
    THEN [games |-> games, current_week |-> current_week,
          flipped_week |-> flipped_week]
    ELSE LET game == iterated[idx]
         IN IF game[1] \notin used_teams /\ game[2] \notin used_teams
            THEN WeekPass_keep(iterated, idx + 1, games,
                               used_teams \cup {game[1], game[2]},
                               Append(current_week, game),
                               Append(flipped_week, Game(game[2], game[1])),
                               live)
            ELSE WeekPass_keep(iterated, idx + 1, games, used_teams,
                               current_week, flipped_week, live)

WeekPass(iterated, idx, games, used_teams, current_week, flipped_week, live) ==
    IF idx > Len(iterated)
    THEN [games |-> games, current_week |-> current_week,
          flipped_week |-> flipped_week]
    ELSE LET game == iterated[idx]
         IN IF game[1] \notin used_teams /\ game[2] \notin used_teams
            THEN LET rest == RemoveGame(games, game)
                 IN WeekPass(IF live THEN rest ELSE iterated, idx + 1, rest,
                             used_teams \cup {game[1], game[2]},
                             Append(current_week, game),
                             Append(flipped_week, Game(game[2], game[1])),
                             live)
            ELSE WeekPass(iterated, idx + 1, games, used_teams,
                          current_week, flipped_week, live)

\* `while games:`; passes is the number of passes the model follows, after
\* which the loop is reported as still running
RECURSIVE WeeksLoop(_, _, _, _, _)
WeeksLoop(games, weekly_games, flipped_weeks, live, passes) ==
    IF games = <<>>
    THEN [terminated |-> TRUE, weekly_games |-> weekly_games \o flipped_weeks]
    ELSE IF passes = 0
    THEN [terminated |-> FALSE, weekly_games |-> weekly_games]
    ELSE LET w == WeekPass(games, 1, games, {}, <<>>, <<>>, live)
         IN WeeksLoop(w.games, Append(weekly_games, w.current_week),
                      Append(flipped_weeks, w.flipped_week), live, passes - 1)

\* Season._generate_schedule; a pass for every matchup is more than the loop
\* can need when every pass removes a game
generate_schedule(list, live) ==
    LET games == Matchups(list, 1, 2, <<>>)
    IN WeeksLoop(games, <<>>, <<>>, live, Len(games) + 1)

WeekOfGames(week, games) == [week |-> week, games |-> games]

\* the loop of Season.__init__ that appends WeekOfGames(week, weekly_games)
\* to the schedule, week counted from 1
ScheduleOf(weekly_games) ==
    [week \in 1..Len(weekly_games) |-> WeekOfGames(week, weekly_games[week])]

\* ---- Season.__init__ for every list of teams ----
\* Team(team_name, initial_players, history_length) for every team of the
\* list: points 0 and an empty history, here of length 1
NewPoints(list) == [name \in {list[i] : i \in 1..Len(list)} |-> 0]

NewHistories(list) ==
    [name \in {list[i] : i \in 1..Len(list)} |-> CircularQueue(1)]

\* str < str of Python: by the first character that differs, a proper prefix
\* first
RECURSIVE StrLess(_, _)
StrLess(a, b) ==
    IF b = <<>> THEN FALSE
    ELSE IF a = <<>> THEN TRUE
    ELSE IF Head(a) # Head(b) THEN Head(a) < Head(b)
    ELSE StrLess(Tail(a), Tail(b))

\* Team.__eq__, __lt__ and __gt__ of the teams a and b when the points of the
\* teams are pts
Team_eq(a, b, pts) == a = b /\ pts[a] = pts[b]

Team_lt(a, b, pts) ==
    IF pts[a] # pts[b] THEN pts[a] > pts[b] ELSE StrLess(a, b)

Team_gt(a, b, pts) ==
    IF pts[a] # pts[b] THEN pts[a] < pts[b] ELSE StrLess(b, a)

\* the binary search of ArraySortedList for the place of item between the
\* positions low and high (counted from 1)
RECURSIVE index_to_add(_, _, _, _, _)
index_to_add(list, item, pts, low, high) ==
    IF low > high THEN low
    ELSE LET mid == (low + high) \div 2
         IN IF Team_lt(list[mid], item, pts)
            THEN index_to_add(list, item, pts, mid + 1, high)
            ELSE IF Team_gt(list[mid], item, pts)
            THEN index_to_add(list, item, pts, low, mid - 1)
            ELSE mid

\* ArraySortedList.add(item): the items from the place of item on move right
sorted_add(list, item, pts) ==
    LET at == index_to_add(list, item, pts, 1, Len(list))
    IN SubSeq(list, 1, at - 1) \o <<item>> \o SubSeq(list, at, Len(list))

\* ArraySortedList.remove(item): ValueError when the search does not end at
\* an item equal to item
sorted_remove(list, item, pts) ==
    LET at == index_to_add(list, item, pts, 1, Len(list))
    IN IF at <= Len(list) /\ Team_eq(list[at], item, pts)
       THEN [raised |-> "ok",
             list |-> SubSeq(list, 1, at - 1) \o SubSeq(list, at + 1, Len(list))]
       ELSE [raised |-> "ValueError", list |-> list]

\* `for team in self.teams: self.leaderboard.add(team)`, from teams[i] on
RECURSIVE AddTeams(_, _, _, _)
AddTeams(list, i, board, pts) ==
    IF i > Len(list) THEN board
    ELSE AddTeams(list, i + 1, sorted_add(board, list[i], pts), pts)

\* the arguments of Season(teams): teams still to be given to the constructor
InitSchedule ==
    /\ TABLE_SIZES = <<>>
    /\ size_index = 0
    /\ array = <<>>
    /\ length = 0
    /\ latest = <<>>
    /\ last = NoLast
    /\ \E n \in 2..MaxTeams : \E list \in TeamLists(n) :
          /\ teams = list
          /\ points = NewPoints(list)
          /\ results_history = NewHistories(list)
    /\ leaderboard = <<>>
    /\ schedule = <<>>
    /\ played = 0

\* Season.__init__; raised is "no return" when _generate_schedule is still in
\* its loop after the passes the model follows
SeasonInit ==
    /\ last.op = "init"
    /\ \E live \in BOOLEAN :
          LET generated_schedule == generate_schedule(teams, live)
          IN /\ schedule' = ScheduleOf(generated_schedule.weekly_games)
             /\ last' = [NoLast EXCEPT
                            !.op = "Season",
                            !.raised = IF generated_schedule.terminated
                                       THEN "ok" ELSE "no return"]
    /\ leaderboard' = AddTeams(teams, 1, <<>>, points)
    /\ UNCHANGED <<TABLE_SIZES, size_index, array, length, latest>>
    /\ UNCHANGED team_vars
    /\ UNCHANGED <<teams, played>>

NextSchedule == SeasonInit

SpecSchedule == InitSchedule /\ [][NextSchedule]_vars

\* the games of the whole schedule, week after week
RECURSIVE AllGames(_, _)
AllGames(sched, week) ==
    IF week > Len(sched) THEN <<>>
    ELSE sched[week].games \o AllGames(sched, week + 1)

\* how many games of the sequence are the game
Count(games, game) == Cardinality({x \in 1..Len(games) : games[x] = game})

TeamSet == {teams[i] : i \in 1..Len(teams)}

\* C36: in the schedule that _generate_schedule makes for teams with distinct
\* names no team is in more than one game of a week, every ordered pair
\* (home, away) of two different teams is exactly one game of the whole
\* schedule, and the loop that makes the weeks terminates.
C36_Schedule ==
    last.op = "Season" =>
       /\ last.raised = "ok"
       /\ \A week \in 1..Len(schedule) :
             /\ schedule[week].week = week
             /\ \A name \in TeamSet :
                   Cardinality({x \in 1..Len(schedule[week].games) :
                                   name \in {schedule[week].games[x][1],
                                             schedule[week].games[x][2]}}) <= 1
       /\ \A home \in TeamSet, away \in TeamSet :
             Count(AllGames(schedule, 1), Game(home, away))
                = IF home = away THEN 0 ELSE 1
       /\ \A x \in 1..Len(AllGames(schedule, 1)) :
             /\ AllGames(schedule, 1)[x][1] \in TeamSet
             /\ AllGames(schedule, 1)[x][2] \in TeamSet

\* a season of four teams whose first week has two games and whose schedule
\* holds all twelve games
C36_Witness ==
    /\ last.op = "Season" /\ last.raised = "ok"
    /\ Len(teams) = 4
    /\ Len(schedule[1].games) = 2
    /\ Len(AllGames(schedule, 1)) = 12
    /\ Len(schedule) \in {6, 8}

\* ---- Season.delay_week_of_games ----
SeasonTeams == 3      \* a season whose weeks are moved or played has
                      \* 2..SeasonTeams teams
MaxDelays == 2        \* delay_week_of_games calls of one behaviour

\* LinkedList.delete_at_index, insert and append; index counted from 0
delete_at_index(list, index) ==
    SubSeq(list, 1, index) \o SubSeq(list, index + 2, Len(list))

insert(list, index, item) ==
    SubSeq(list, 1, index) \o <<item>> \o SubSeq(list, index + 1, Len(list))

list_append(list, item) == list \o <<item>>

\* new_week None is 0 here
None == 0

\* delay_week_of_games that takes new_week as an index counted from 0
delay_week_of_games_index(sched, orig_week, new_week) ==
    LET orig_index == orig_week - 1
        week_to_move == sched[orig_index + 1]
        rest == delete_at_index(sched, orig_index)
    IN IF new_week = None
       THEN list_append(rest, week_to_move)
       ELSE insert(rest, IF new_week < Len(sched) THEN new_week
                         ELSE Len(rest), week_to_move)

delay_week_of_games(sched, orig_week, new_week) ==
    LET orig_index == orig_week - 1
        week_to_move == sched[orig_index + 1]
        rest == delete_at_index(sched, orig_index)
    IN IF new_week = None
       THEN list_append(rest, week_to_move)
       ELSE LET new_index == new_week - 1
            IN insert(rest, new_index, week_to_move)

\* the teams of a season of n teams, named "a", "b", ...
FirstTeams(n) == [i \in 1..n |-> KeyOf(i)]

\* a Season of 2..SeasonTeams teams after its construction; latest counts
\* the delay_week_of_games calls
InitDelay ==
    /\ TABLE_SIZES = <<>>
    /\ size_index = 0
    /\ array = <<>>
    /\ length = 0
    /\ latest = 0
    /\ last = NoLast
    /\ \E n \in 2..SeasonTeams, live \in BOOLEAN :
          /\ teams = FirstTeams(n)
          /\ schedule = ScheduleOf(generate_schedule(teams, live).weekly_games)
    /\ points = NewPoints(teams)
    /\ results_history = NewHistories(teams)
    /\ leaderboard = AddTeams(teams, 1, <<>>, points)
    /\ played = 0

\* delay_week_of_games(orig_week, new_week) with both weeks in the schedule
DelayWeek(orig_week, new_week) ==
    /\ latest < MaxDelays
    /\ schedule' = delay_week_of_games(schedule, orig_week, new_week)
    /\ last' = [NoLast EXCEPT !.op = "delay"]
    /\ latest' = latest + 1
    /\ UNCHANGED <<TABLE_SIZES, size_index, array, length>>
    /\ UNCHANGED team_vars
    /\ UNCHANGED <<teams, leaderboard, played>>

NextDelay ==
    \E orig_week \in 1..Len(schedule),
       new_week \in {None} \cup 1..Len(schedule) :
       DelayWeek(orig_week, new_week)

SpecDelay == InitDelay /\ [][NextDelay]_vars

\* the sequence without the item
Others(seq, item) == SelectSeq(seq, LAMBDA w : w # item)

\* C35: delay_week_of_games(orig_week, new_week) leaves the number of weeks
\* of the schedule as it was, keeps the other weeks in the order they had and
\* puts the moved week at position new_week (counted from 1) of the schedule,
\* at the end when new_week is None; no week is lost or comes twice, whether
\* new_week is before or after orig_week.
C35_DelayWeek ==
    [][\A orig_week \in 1..Len(schedule),
          new_week \in {None} \cup 1..Len(schedule) :
          DelayWeek(orig_week, new_week) =>
             LET moved == schedule[orig_week]
                 place == IF new_week = None THEN Len(schedule) ELSE new_week
             IN /\ Len(schedule') = Len(schedule)
                /\ schedule'[place] = moved
                /\ Others(schedule', moved) = Others(schedule, moved)
                /\ Len(Others(schedule', moved)) = Len(schedule) - 1
                /\ {schedule'[x] : x \in 1..Len(schedule')}
                      = {schedule[x] : x \in 1..Len(schedule)}
                /\ \A x, y \in 1..Len(schedule') :
                      x # y => schedule'[x] # schedule'[y]]_vars

\* the schedule of a season of three teams after week 1 was moved to the end
\* and then week 6, by then at place 5, to place 2
C35_Witness ==
    /\ last.op = "delay"
    /\ Len(schedule) = 6
    /\ [x \in 1..6 |-> schedule[x].week] = <<2, 6, 3, 4, 5, 1>>
    /\ \A x \in 1..6 : Len(schedule[x].games) = 1

\* ---- Season.simulate_season ----
\* the outcome of GameSimulator.simulate as the results of the home team and
\* of the away team: WIN and LOSS, LOSS and WIN, or DRAW and DRAW
Outcomes == {<<3, 0>>, <<0, 3>>, <<1, 1>>}

\* add_result(result) of the team called name
TeamResult(pts, hist, name, result) ==
    LET t == add_result(pts[name], hist[name], result)
    IN [points |-> [pts EXCEPT ![name] = t.points],
        results_history |-> [hist EXCEPT ![name] = t.results_history]]

\* the body of the loops of simulate_season with the results added before
\* the two teams are taken off the leaderboard
simulate_game_updatefirst(board, pts, hist, game, outcome) ==
    LET home == TeamResult(pts, hist, game[1], outcome[1])
        away == TeamResult(home.points, home.results_history, game[2],
                           outcome[2])
        without_home == sorted_remove(board, game[1], away.points)
        without_away == sorted_remove(without_home.list, game[2], away.points)
    IN IF without_home.raised # "ok"
       THEN [raised |-> without_home.raised, leaderboard |-> board,
             points |-> away.points, results_history |-> away.results_history]
       ELSE IF without_away.raised # "ok"
       THEN [raised |-> without_away.raised,
             leaderboard |-> without_home.list,
             points |-> away.points, results_history |-> away.results_history]
       ELSE [raised |-> "ok",
             leaderboard |-> sorted_add(sorted_add(without_away.list, game[1],
                                                   away.points),
                                        game[2], away.points),
             points |-> away.points,
             results_history |-> away.results_history]

\* the body of the loops of simulate_season for one game: both teams leave
\* the leaderboard, get their results and are added again.  The goals that
\* are counted for the players do not touch points or the leaderboard.
simulate_game(board, pts, hist, game, outcome) ==
    LET without_home == sorted_remove(board, game[1], pts)
        without_away == sorted_remove(without_home.list, game[2], pts)
        home == TeamResult(pts, hist, game[1], outcome[1])
        away == TeamResult(home.points, home.results_history, game[2],
                           outcome[2])
    IN IF without_home.raised # "ok"
       THEN [raised |-> without_home.raised, leaderboard |-> board,
             points |-> pts, results_history |-> hist]
       ELSE IF without_away.raised # "ok"
       THEN [raised |-> without_away.raised,
             leaderboard |-> without_home.list,
             points |-> pts, results_history |-> hist]
       ELSE [raised |-> "ok",
             leaderboard |-> sorted_add(sorted_add(without_away.list, game[1],
                                                   away.points),
                                        game[2], away.points),
             points |-> away.points,
             results_history |-> away.results_history]

\* the list in the opposite order
Reversed(list) == [i \in 1..Len(list) |-> list[Len(list) + 1 - i]]

\* a Season of 2..SeasonTeams teams, given in the order of their names or in
\* the opposite order, after its construction; played is the number of games
\* simulate_season has gone through
InitSeason ==
    /\ TABLE_SIZES = <<>>
    /\ size_index = 0
    /\ array = <<>>
    /\ length = 0
    /\ latest = <<>>
    /\ last = NoLast
    /\ \E n \in 2..SeasonTeams, live \in BOOLEAN :
          /\ teams \in {FirstTeams(n), Reversed(FirstTeams(n))}
          /\ schedule = ScheduleOf(generate_schedule(teams, live).weekly_games)
    /\ points = NewPoints(teams)
    /\ results_history = NewHistories(teams)
    /\ leaderboard = AddTeams(teams, 1, <<>>, points)
    /\ played = 0

\* one turn of `for game in weekly_games` of simulate_season, the weeks and
\* their games taken in the order of the schedule; a ValueError ends the call
SimulateGame(outcome) ==
    /\ played < Len(AllGames(schedule, 1))
    /\ last.raised = "ok"
    /\ LET game == AllGames(schedule, 1)[played + 1]
           r == simulate_game(leaderboard, points, results_history, game,
                              outcome)
       IN /\ leaderboard' = r.leaderboard
          /\ points' = r.points
          /\ results_history' = r.results_history
          /\ last' = [NoLast EXCEPT !.op = "game", !.raised = r.raised]
    /\ played' = played + 1
    /\ UNCHANGED <<TABLE_SIZES, size_index, array, length, latest>>
    /\ UNCHANGED <<teams, schedule>>

NextSeason == \E outcome \in Outcomes : SimulateGame(outcome)

SpecSeason == InitSeason /\ [][NextSeason]_vars

\* C37: after every game that simulate_season has gone through, and so at the
\* end of the season, every team of the season is on the leaderboard exactly
\* once, and the leaderboard is in the order of points, highest first, teams
\* with the same points in the order of their names; taking the two teams
\* off before their points change and adding them afterwards never fails.
C37_Leaderboard ==
    /\ last.raised = "ok"
    /\ Len(leaderboard) = Len(teams)
    /\ \A name \in TeamSet :
          Cardinality({x \in 1..Len(leaderboard) : leaderboard[x] = name}) = 1
    /\ \A x \in 1..Len(leaderboard) : leaderboard[x] \in TeamSet
    /\ \A x, y \in 1..Len(leaderboard) :
          x < y =>
             \/ points[leaderboard[x]] > points[leaderboard[y]]
             \/ /\ points[leaderboard[x]] = points[leaderboard[y]]
                /\ StrLess(leaderboard[x], leaderboard[y])

\* the end of a season of three teams: "c" leads and "a" and "b", with the
\* same points, follow in the order of their names
C37_Witness ==
    /\ last.op = "game" /\ last.raised = "ok"
    /\ Len(teams) = 3
    /\ played = Len(AllGames(schedule, 1))
    /\ played = 6
    /\ leaderboard = <<KeyOf(3), KeyOf(1), KeyOf(2)>>
    /\ points[KeyOf(3)] > points[KeyOf(1)]
    /\ points[KeyOf(1)] = points[KeyOf(2)]
    /\ points[KeyOf(1)] > 0

====
